---- MODULE Spec2Model ----
(***************************************************************************)
(* A model of pyiceberg's GlueCatalog (src/pyiceberg/catalog/glue.py): the  *)
(* catalog's table and namespace lifecycle operations running against the   *)
(* AWS Glue metastore (tables, databases) and a content store that holds    *)
(* the metadata files.  Several callers share one backend; the catalog      *)
(* takes no lock, so a caller's operation is a sequence of backend calls    *)
(* that other callers may interleave with.                                  *)
(***************************************************************************)
EXTENDS Integers, Sequences, FiniteSets, TLC

\* ------------------------------------------------------------------------
\* Bounds of the model
\* ------------------------------------------------------------------------
MaxOps == 2        \* catalog operations started in one run
MaxFaults == 2     \* injected backend / storage failures in one run

Callers == {"c1", "c2"}
Namespaces == {"db1", "db2"}
TableIds == {<<"db1", "t1">>, <<"db1", "t2">>, <<"db2", "t1">>}
MetadataLocations == {"s3://wh/m1.json", "s3://wh/m2.json"}

\* ------------------------------------------------------------------------
\* Constants imported by glue.py from pyiceberg.catalog
\* ------------------------------------------------------------------------
ICEBERG == "iceberg"
TABLE_TYPE == "table_type"
METADATA_LOCATION == "metadata_location"
EXTERNAL_TABLE == "EXTERNAL_TABLE"
LOCATION == "location"
EMPTY_DICT == [k \in {} |-> ""]

\* str.lower() and str.upper() on the marker strings that occur in the model
Lower(s) ==
    CASE s \in {"ICEBERG", "Iceberg", "iceberg"} -> "iceberg"
      [] s \in {"HIVE", "hive"} -> "hive"
      [] OTHER -> s

Upper(s) ==
    CASE s \in {"ICEBERG", "Iceberg", "iceberg"} -> "ICEBERG"
      [] s \in {"HIVE", "hive"} -> "HIVE"
      [] OTHER -> s

\* dict helpers
Has(d, k) == k \in DOMAIN d
Put(d, k, v) == [x \in (DOMAIN d) \cup {k} |-> IF x = k THEN v ELSE d[x]]
Del(d, k) == [x \in (DOMAIN d) \ {k} |-> d[x]]

VARIABLES
    tables,      \* Glue tables: <<database, name>> -> table entity (a dict)
    databases,   \* Glue databases: name -> database entity (a dict)
    files,       \* content store: the metadata locations that hold a file
    pc,          \* caller -> position inside its current operation
    call,        \* caller -> arguments and locals of its current operation
    last,        \* the operation that completed most recently, with its outcome;
                 \* none once a later operation has made its first call
    nOps,        \* operations started so far
    nFaults,     \* failures injected so far
    concurrency  \* how many operations may be under way at the same time

vars == <<tables, databases, files, pc, call, last, nOps, nFaults, concurrency>>

\* ------------------------------------------------------------------------
\* Entity translation (module-level functions of glue.py)
\* ------------------------------------------------------------------------
\* parameters with the two reserved values stored under each other's key
ParametersSwapped(metadata_location) ==
    (TABLE_TYPE :> metadata_location) @@ (METADATA_LOCATION :> Upper(ICEBERG))

_construct_parameters(metadata_location) ==
    (TABLE_TYPE :> Upper(ICEBERG)) @@ (METADATA_LOCATION :> metadata_location)

\* a table input whose parameter bag lacks the table-type marker
CreateInputWithoutMarker(table_name, metadata_location, properties) ==
    LET t0 == [Name |-> table_name, TableType |-> EXTERNAL_TABLE,
               Parameters |-> [metadata_location |-> metadata_location]]
    IN  IF Has(properties, "Description")
        THEN Put(t0, "Description", properties["Description"]) ELSE t0

_construct_create_table_input(table_name, metadata_location, properties) ==
    LET table_input == [Name |-> table_name,
                        TableType |-> EXTERNAL_TABLE,
                        Parameters |-> _construct_parameters(metadata_location)]
    IN  IF Has(properties, "Description")
        THEN Put(table_input, "Description", properties["Description"])
        ELSE table_input

CopyIfPresent(dst, src, k) == IF Has(src, k) THEN Put(dst, k, src[k]) ELSE dst

\* a rename input that forgets the owner
RenameInputWithoutOwner(to_table_name, glue_table) ==
    LET r0 == [Name |-> to_table_name, TableType |-> glue_table["TableType"]]
        r2 == CopyIfPresent(r0, glue_table, "Parameters")
        r3 == CopyIfPresent(r2, glue_table, "StorageDescriptor")
    IN  CopyIfPresent(r3, glue_table, "Description")

\* Precondition (line 88): glue_table["TableType"] is present and non-empty.
_construct_rename_table_input(to_table_name, glue_table) ==
    LET r0 == [Name |-> to_table_name, TableType |-> glue_table["TableType"]]
        r1 == CopyIfPresent(r0, glue_table, "Owner")
        r2 == CopyIfPresent(r1, glue_table, "Parameters")
        r3 == CopyIfPresent(r2, glue_table, "StorageDescriptor")
    IN  CopyIfPresent(r3, glue_table, "Description")

\* a validation that compares the type marker case-sensitively
ConvertCaseSensitive(glue_table, store) ==
    LET fail(kind) == [status |-> kind]
    IN  IF ~Has(glue_table, "Parameters") THEN fail("KeyError")
        ELSE LET properties == glue_table["Parameters"] IN
        IF DOMAIN properties = {} THEN fail("AssertionError")
        ELSE IF ~Has(properties, TABLE_TYPE) THEN fail("NoSuchPropertyException")
        ELSE IF properties[TABLE_TYPE] # ICEBERG THEN fail("NoSuchIcebergTableError")
        ELSE IF ~Has(properties, METADATA_LOCATION) THEN fail("NoSuchPropertyException")
        ELSE IF properties[METADATA_LOCATION] \notin store THEN fail("FileNotFoundError")
        ELSE [status |-> "ok",
              table |-> [identifier |-> <<glue_table["DatabaseName"], glue_table["Name"]>>,
                         metadata_location |-> properties[METADATA_LOCATION]]]

\* GlueCatalog._convert_glue_to_iceberg: validate the entity, then read the
\* metadata file.  Returns the raised error kind, or "ok" with the Table.
_convert_glue_to_iceberg(glue_table, store) ==
    LET fail(kind) == [status |-> kind]
    IN  IF ~Has(glue_table, "Parameters") THEN fail("KeyError")
        ELSE LET properties == glue_table["Parameters"] IN
        IF DOMAIN properties = {} THEN fail("AssertionError")
        ELSE IF ~Has(properties, TABLE_TYPE) THEN fail("NoSuchPropertyException")
        ELSE IF Lower(properties[TABLE_TYPE]) # ICEBERG THEN fail("NoSuchIcebergTableError")
        ELSE IF ~Has(properties, METADATA_LOCATION) THEN fail("NoSuchPropertyException")
        ELSE IF properties[METADATA_LOCATION] \notin store THEN fail("FileNotFoundError")
        ELSE [status |-> "ok",
              table |-> [identifier |-> <<glue_table["DatabaseName"], glue_table["Name"]>>,
                         metadata_location |-> properties[METADATA_LOCATION]]]

\* ------------------------------------------------------------------------
\* The Glue client calls the catalog makes (self.glue.*), on a given state
\* of the table store T and database store D
\* ------------------------------------------------------------------------
GlueGetTable(T, D, id) ==
    IF id[1] \in DOMAIN D /\ id \in DOMAIN T
    THEN [err |-> "none", Table |-> T[id]]
    ELSE [err |-> "EntityNotFoundException"]

GlueCreateTable(T, D, database_name, table_input) ==
    LET id == <<database_name, table_input["Name"]>>
    IN  IF database_name \notin DOMAIN D
        THEN [err |-> "EntityNotFoundException", T |-> T]
        ELSE IF id \in DOMAIN T
        THEN [err |-> "AlreadyExistsException", T |-> T]
        ELSE [err |-> "none", T |-> Put(T, id, Put(table_input, "DatabaseName", database_name))]

\* `fault` is an injected service failure: the call raises and deletes nothing
GlueDeleteTable(T, D, id, fault) ==
    IF fault THEN [err |-> "InternalServiceException", T |-> T]
    ELSE IF id[1] \in DOMAIN D /\ id \in DOMAIN T
    THEN [err |-> "none", T |-> Del(T, id)]
    ELSE [err |-> "EntityNotFoundException", T |-> T]

\* ------------------------------------------------------------------------
\* Bookkeeping of operations
\* ------------------------------------------------------------------------
NoValue == [none |-> TRUE]
NoCall == [op |-> "none"]
NoOp == [op |-> "none", caller |-> "none", args |-> NoValue, status |-> "none",
         ret |-> NoValue, calls |-> <<>>,
         pre |-> NoValue, post |-> NoValue]

Snapshot(T, D) == [tables |-> T, databases |-> D]
Api(name, target, err) == [api |-> name, target |-> target, err |-> err]

\* whether one more failure may be injected
FaultChoices == IF nFaults < MaxFaults THEN {FALSE, TRUE} ELSE {FALSE}
CountFault(fault) == nFaults' = IF fault THEN nFaults + 1 ELSE nFaults

\* caller c begins an operation: it is idle, the run's budget allows it and
\* fewer than `concurrency` operations are under way
Begin(c) ==
    /\ pc[c] = "idle"
    /\ nOps < MaxOps
    /\ Cardinality({d \in Callers : pc[d] # "idle"}) < concurrency
    /\ nOps' = nOps + 1
    /\ UNCHANGED concurrency

\* caller c's operation moves on to its next backend call
Goto(c, label, locals) ==
    /\ pc' = [pc EXCEPT ![c] = label]
    /\ call' = [call EXCEPT ![c] = locals]
    /\ UNCHANGED last

\* caller c's operation makes its first backend call and goes on; the
\* record of the operation completed before it is dropped
Start(c, label, locals) ==
    /\ pc' = [pc EXCEPT ![c] = label]
    /\ call' = [call EXCEPT ![c] = locals]
    /\ last' = NoOp

\* caller c's operation ends (returns `ret` or raises `status`); T and D are
\* the backend stores it leaves behind
Return(c, op, args, status, ret, calls, pre, T, D) ==
    /\ last' = [op |-> op, caller |-> c, args |-> args, status |-> status,
                ret |-> ret, calls |-> calls, pre |-> pre, post |-> Snapshot(T, D)]
    /\ pc' = [pc EXCEPT ![c] = "idle"]
    /\ call' = [call EXCEPT ![c] = NoCall]

\* ------------------------------------------------------------------------
\* load_table and drop_table (one backend call each)
\* ------------------------------------------------------------------------
\* GlueCatalog.load_table on stores T, D and content store F
LoadTableResult(T, D, F, id) ==
    LET g == GlueGetTable(T, D, id)
    IN  IF g.err = "EntityNotFoundException"
        THEN [status |-> "NoSuchTableError", ret |-> NoValue,
              calls |-> <<Api("get_table", id, g.err)>>]
        ELSE LET conv == _convert_glue_to_iceberg(g.Table, F)
             IN  [status |-> conv.status,
                  ret |-> IF conv.status = "ok" THEN conv.table ELSE NoValue,
                  calls |-> <<Api("get_table", id, g.err)>>]

\* a drop that swallows the backend's not-found signal
DropTableSwallowsNotFound(T, D, id, fault) ==
    LET d == GlueDeleteTable(T, D, id, fault)
    IN  [status |-> CASE d.err \in {"none", "EntityNotFoundException"} -> "ok"
                      [] OTHER -> d.err,
         T |-> d.T,
         calls |-> <<Api("delete_table", id, d.err)>>]

\* GlueCatalog.drop_table on stores T, D
DropTableResult(T, D, id, fault) ==
    LET d == GlueDeleteTable(T, D, id, fault)
    IN  [status |-> CASE d.err = "none" -> "ok"
                      [] d.err = "EntityNotFoundException" -> "NoSuchTableError"
                      [] OTHER -> d.err,
         T |-> d.T,
         calls |-> <<Api("delete_table", id, d.err)>>]

load_table(c) ==
    \E id \in TableIds :
        LET r == LoadTableResult(tables, databases, files, id)
        IN  /\ Begin(c)
            /\ Return(c, "load_table", [id |-> id], r.status, r.ret, r.calls,
                      Snapshot(tables, databases), tables, databases)
            /\ UNCHANGED <<tables, databases, files, nFaults>>

drop_table(c) ==
    \E id \in TableIds, fault \in FaultChoices :
        LET r == DropTableResult(tables, databases, id, fault)
        IN  /\ Begin(c)
            /\ CountFault(fault)
            /\ tables' = r.T
            /\ Return(c, "drop_table", [id |-> id], r.status, NoValue, r.calls,
                      Snapshot(tables, databases), r.T, databases)
            /\ UNCHANGED <<databases, files>>

\* ------------------------------------------------------------------------
\* create_table: write the metadata file, register the entity, load it back
\* ------------------------------------------------------------------------
CreateProperties == {EMPTY_DICT, [Description |-> "created"]}

\* a create_table that goes on to register without writing the metadata file
CreateTableWriteSkipsFile(c) ==
    \E id \in TableIds, loc \in MetadataLocations, props \in CreateProperties,
       fault \in FaultChoices :
        LET args == [id |-> id, metadata_location |-> loc, properties |-> props]
            pre == Snapshot(tables, databases)
        IN  /\ Begin(c)
            /\ CountFault(fault)
            /\ Start(c, "create_table_register",
                    [op |-> "create_table", args |-> args, pre |-> pre,
                     calls |-> <<>>])
            /\ UNCHANGED <<tables, databases, files>>

\* lines 208-216: the metadata file is written at metadata_location
create_table_write(c) ==
    \E id \in TableIds, loc \in MetadataLocations, props \in CreateProperties,
       fault \in FaultChoices :
        LET args == [id |-> id, metadata_location |-> loc, properties |-> props]
            pre == Snapshot(tables, databases)
        IN  /\ Begin(c)
            /\ CountFault(fault)
            /\ IF fault
               THEN /\ Return(c, "create_table", args, "OSError", NoValue, <<>>,
                              pre, tables, databases)
                    /\ UNCHANGED files
               ELSE /\ files' = files \cup {loc}
                    /\ Start(c, "create_table_register",
                            [op |-> "create_table", args |-> args, pre |-> pre,
                             calls |-> <<>>])
            /\ UNCHANGED <<tables, databases>>

\* a registration that takes a conflict for success
CreateGlueTableIgnoringConflict(T, D, database_name, table_input) ==
    LET r == GlueCreateTable(T, D, database_name, table_input)
    IN  [status |-> CASE r.err \in {"none", "AlreadyExistsException"} -> "ok"
                      [] r.err = "EntityNotFoundException" -> "NoSuchNamespaceError"
                      [] OTHER -> r.err,
         T |-> r.T,
         calls |-> <<Api("create_table", <<database_name, table_input["Name"]>>, r.err)>>]

\* GlueCatalog._create_glue_table on stores T, D
_create_glue_table(T, D, database_name, table_input) ==
    LET r == GlueCreateTable(T, D, database_name, table_input)
    IN  [status |-> CASE r.err = "none" -> "ok"
                      [] r.err = "AlreadyExistsException" -> "TableAlreadyExistsError"
                      [] r.err = "EntityNotFoundException" -> "NoSuchNamespaceError"
                      [] OTHER -> r.err,
         T |-> r.T,
         calls |-> <<Api("create_table", <<database_name, table_input["Name"]>>, r.err)>>]

\* lines 218-220
create_table_register(c) ==
    LET l == call[c]
        id == l.args.id
        table_input == _construct_create_table_input(id[2], l.args.metadata_location,
                                                     l.args.properties)
        r == _create_glue_table(tables, databases, id[1], table_input)
        calls == l.calls \o r.calls
    IN  /\ pc[c] = "create_table_register"
        /\ tables' = r.T
        /\ IF r.status = "ok"
           THEN Goto(c, "create_table_load", [l EXCEPT !.calls = calls])
           ELSE Return(c, "create_table", l.args, r.status, NoValue, calls, l.pre,
                       r.T, databases)
        /\ UNCHANGED <<databases, files, nOps, nFaults, concurrency>>

\* line 222: return self.load_table(identifier)
create_table_load(c) ==
    LET l == call[c]
        r == LoadTableResult(tables, databases, files, l.args.id)
    IN  /\ pc[c] = "create_table_load"
        /\ Return(c, "create_table", l.args, r.status, r.ret, l.calls \o r.calls,
                  l.pre, tables, databases)
        /\ UNCHANGED <<tables, databases, files, nOps, nFaults, concurrency>>

\* ------------------------------------------------------------------------
\* rename_table: fetch and validate the source, create the destination,
\* drop the source (rolling the destination back when that fails), load
\* ------------------------------------------------------------------------
\* lines 312-332
rename_table_get(c) ==
    \E from \in TableIds, to \in TableIds :
        LET args == [id |-> from, to |-> to]
            pre == Snapshot(tables, databases)
            g == GlueGetTable(tables, databases, from)
            calls == <<Api("get_table", from, g.err)>>
            conv == _convert_glue_to_iceberg(g.Table, files)
        IN  /\ Begin(c)
            /\ IF g.err = "EntityNotFoundException"
               THEN Return(c, "rename_table", args, "NoSuchTableError", NoValue, calls,
                           pre, tables, databases)
               ELSE IF conv.status # "ok"
               THEN Return(c, "rename_table", args, conv.status, NoValue, calls,
                           pre, tables, databases)
               ELSE Start(c, "rename_table_create",
                         [op |-> "rename_table", args |-> args, pre |-> pre,
                          calls |-> calls, glue_table |-> g.Table])
            /\ UNCHANGED <<tables, databases, files, nFaults>>

\* a creation of the destination that removes the source in the same step
RenameCreateMovesEntity(c) ==
    LET l == call[c]
        to == l.args.to
        typed == Has(l.glue_table, "TableType") /\ l.glue_table["TableType"] # ""
        rename_table_input == _construct_rename_table_input(to[2], l.glue_table)
        r == _create_glue_table(tables, databases, to[1], rename_table_input)
        calls == l.calls \o r.calls
    IN  /\ pc[c] = "rename_table_create"
        /\ IF ~typed
           THEN /\ Return(c, "rename_table", l.args,
                          IF Has(l.glue_table, "TableType")
                          THEN "AssertionError" ELSE "KeyError",
                          NoValue, l.calls, l.pre, tables, databases)
                /\ UNCHANGED tables
           ELSE IF r.status = "ok"
           THEN /\ tables' = Del(r.T, l.args.id)
                /\ Goto(c, "rename_table_drop", [l EXCEPT !.calls = calls])
           ELSE /\ tables' = r.T
                /\ Return(c, "rename_table", l.args, r.status, NoValue, calls,
                          l.pre, r.T, databases)
        /\ UNCHANGED <<databases, files, nOps, nFaults, concurrency>>

\* lines 334-335
rename_table_create(c) ==
    LET l == call[c]
        to == l.args.to
        typed == Has(l.glue_table, "TableType") /\ l.glue_table["TableType"] # ""
        rename_table_input == _construct_rename_table_input(to[2], l.glue_table)
        r == _create_glue_table(tables, databases, to[1], rename_table_input)
        calls == l.calls \o r.calls
    IN  /\ pc[c] = "rename_table_create"
        /\ IF ~typed
           THEN /\ Return(c, "rename_table", l.args,
                          IF Has(l.glue_table, "TableType")
                          THEN "AssertionError" ELSE "KeyError",
                          NoValue, l.calls, l.pre, tables, databases)
                /\ UNCHANGED tables
           ELSE /\ tables' = r.T
                /\ IF r.status = "ok"
                   THEN Goto(c, "rename_table_drop", [l EXCEPT !.calls = calls])
                   ELSE Return(c, "rename_table", l.args, r.status, NoValue, calls,
                               l.pre, r.T, databases)
        /\ UNCHANGED <<databases, files, nOps, nFaults, concurrency>>

\* a source delete after which the rename always goes on to delete its
\* destination as well
RenameDropAlsoRollsBack(c) ==
    \E fault \in FaultChoices :
        LET l == call[c]
            r == DropTableResult(tables, databases, l.args.id, fault)
            calls == l.calls \o r.calls
        IN  /\ pc[c] = "rename_table_drop"
            /\ CountFault(fault)
            /\ tables' = r.T
            /\ Goto(c, "rename_table_rollback", [l EXCEPT !.calls = calls])
            /\ UNCHANGED <<databases, files, nOps, concurrency>>

\* lines 337-339: self.drop_table(from_identifier), any exception is caught
rename_table_drop(c) ==
    \E fault \in FaultChoices :
        LET l == call[c]
            r == DropTableResult(tables, databases, l.args.id, fault)
            calls == l.calls \o r.calls
        IN  /\ pc[c] = "rename_table_drop"
            /\ CountFault(fault)
            /\ tables' = r.T
            /\ Goto(c, IF r.status = "ok" THEN "rename_table_load"
                                          ELSE "rename_table_rollback",
                    [l EXCEPT !.calls = calls])
            /\ UNCHANGED <<databases, files, nOps, concurrency>>

\* a rollback that deletes the source identifier instead of the destination
RollbackDropsSource(c) ==
    \E fault \in FaultChoices :
        LET l == call[c]
            r == DropTableResult(tables, databases, l.args.id, fault)
            calls == l.calls \o r.calls
        IN  /\ pc[c] = "rename_table_rollback"
            /\ CountFault(fault)
            /\ tables' = r.T
            /\ Return(c, "rename_table", l.args,
                      IF r.status \in {"ok", "NoSuchTableError"}
                      THEN "ValueError" ELSE r.status,
                      NoValue, calls, l.pre, r.T, databases)
            /\ UNCHANGED <<databases, files, nOps, concurrency>>

\* lines 340-350: self.drop_table(to_identifier); only NoSuchTableError is
\* caught, then ValueError(log_message) is raised
rename_table_rollback(c) ==
    \E fault \in FaultChoices :
        LET l == call[c]
            r == DropTableResult(tables, databases, l.args.to, fault)
            calls == l.calls \o r.calls
        IN  /\ pc[c] = "rename_table_rollback"
            /\ CountFault(fault)
            /\ tables' = r.T
            /\ Return(c, "rename_table", l.args,
                      IF r.status \in {"ok", "NoSuchTableError"}
                      THEN "ValueError" ELSE r.status,
                      CASE r.status = "ok" ->
                               [message |-> "Failed to drop old table. Rolled back table creation."]
                        [] r.status = "NoSuchTableError" ->
                               [message |-> "Failed to drop old table. Failed to roll back table creation. Please clean up manually"]
                        [] OTHER -> NoValue,
                      calls, l.pre, r.T, databases)
            /\ UNCHANGED <<databases, files, nOps, concurrency>>

\* line 352: return self.load_table(to_identifier)
rename_table_load(c) ==
    LET l == call[c]
        r == LoadTableResult(tables, databases, files, l.args.to)
    IN  /\ pc[c] = "rename_table_load"
        /\ Return(c, "rename_table", l.args, r.status, r.ret, l.calls \o r.calls,
                  l.pre, tables, databases)
        /\ UNCHANGED <<tables, databases, files, nOps, nFaults, concurrency>>

\* ------------------------------------------------------------------------
\* Namespaces
\* ------------------------------------------------------------------------
PageSize == 1      \* entries the backend returns in one page of a listing
NoToken == 0       \* "no continuation token"; a token is a positive offset
NameOrder == <<"t1", "t2">>              \* backend order of table names
NamespaceOrder == <<"db1", "db2">>       \* backend order of database names

\* a translation that loses the location key
DatabaseInputWithoutLocation(database_name, properties) ==
    LET parameters == [k \in (DOMAIN properties) \ {"Description", LOCATION} |->
                          properties[k]]
        d0 == [Name |-> database_name, Parameters |-> parameters]
    IN  IF Has(properties, "Description")
        THEN Put(d0, "Description", properties["Description"]) ELSE d0

_construct_database_input(database_name, properties) ==
    LET promoted == {"Description", LOCATION}
        parameters == [k \in (DOMAIN properties) \ promoted |-> properties[k]]
        d0 == [Name |-> database_name, Parameters |-> parameters]
        d1 == IF Has(properties, "Description")
              THEN Put(d0, "Description", properties["Description"]) ELSE d0
    IN  IF Has(properties, LOCATION)
        THEN Put(d1, "LocationUri", properties[LOCATION]) ELSE d1

\* one page of a listing of the sequence `all`, starting at offset `token`
Page(all, token) ==
    LET stop == IF token + PageSize < Len(all) THEN token + PageSize ELSE Len(all)
    IN  [entries |-> SubSeq(all, token + 1, stop),
         NextToken |-> IF stop < Len(all) THEN stop ELSE NoToken]

GlueGetTables(T, D, database_name, token) ==
    IF database_name \notin DOMAIN D
    THEN [err |-> "EntityNotFoundException"]
    ELSE LET all == SelectSeq(NameOrder, LAMBDA n : <<database_name, n>> \in DOMAIN T)
             page == Page(all, token)
         IN  [err |-> "none", TableList |-> page.entries, NextToken |-> page.NextToken]

GlueGetDatabases(D, token) ==
    LET all == SelectSeq(NamespaceOrder, LAMBDA n : n \in DOMAIN D)
        page == Page(all, token)
    IN  [err |-> "none", DatabaseList |-> page.entries, NextToken |-> page.NextToken]

GlueGetDatabase(D, name) ==
    IF name \in DOMAIN D
    THEN [err |-> "none", Database |-> D[name]]
    ELSE [err |-> "EntityNotFoundException"]

GlueCreateDatabase(D, database_input) ==
    IF database_input["Name"] \in DOMAIN D
    THEN [err |-> "AlreadyExistsException", D |-> D]
    ELSE [err |-> "none", D |-> Put(D, database_input["Name"], database_input)]

GlueUpdateDatabase(D, name, database_input) ==
    IF name \in DOMAIN D
    THEN [err |-> "none", D |-> Put(D, name, database_input)]
    ELSE [err |-> "EntityNotFoundException", D |-> D]

GlueDeleteDatabase(D, name) ==
    IF name \in DOMAIN D
    THEN [err |-> "none", D |-> Del(D, name)]
    ELSE [err |-> "EntityNotFoundException", D |-> D]

\* GlueCatalog.load_namespace_properties on database store D
LoadNamespaceResult(D, ns) ==
    LET g == GlueGetDatabase(D, ns)
        calls == <<Api("get_database", ns, g.err)>>
    IN  IF g.err \in {"EntityNotFoundException", "InvalidInputException"}
        THEN [status |-> "NoSuchNamespaceError", ret |-> NoValue, calls |-> calls]
        ELSE LET database == g.Database
                 p0 == IF Has(database, "Parameters") THEN database["Parameters"]
                                                      ELSE EMPTY_DICT
                 p1 == IF Has(database, "LocationUri")
                       THEN Put(p0, "location", database["LocationUri"]) ELSE p0
                 p2 == IF Has(database, "Description")
                       THEN Put(p1, "Description", database["Description"]) ELSE p1
             IN  [status |-> "ok", ret |-> [properties |-> p2], calls |-> calls]

NamespaceProperties == {EMPTY_DICT,
                        [Description |-> "v1", location |-> "v1", k1 |-> "v1"],
                        [k1 |-> "v1", k2 |-> "v2"],
                        [location |-> "v1"]}

create_namespace(c) ==
    \E ns \in Namespaces, props \in NamespaceProperties :
        LET r == GlueCreateDatabase(databases, _construct_database_input(ns, props))
        IN  /\ Begin(c)
            /\ databases' = r.D
            /\ Return(c, "create_namespace", [ns |-> ns, properties |-> props],
                      IF r.err = "AlreadyExistsException"
                      THEN "NamespaceAlreadyExistsError" ELSE "ok",
                      NoValue, <<Api("create_database", ns, r.err)>>,
                      Snapshot(tables, databases), tables, r.D)
            /\ UNCHANGED <<tables, files, nFaults>>

load_namespace_properties(c) ==
    \E ns \in Namespaces :
        LET r == LoadNamespaceResult(databases, ns)
        IN  /\ Begin(c)
            /\ Return(c, "load_namespace_properties", [ns |-> ns], r.status, r.ret,
                      r.calls, Snapshot(tables, databases), tables, databases)
            /\ UNCHANGED <<tables, databases, files, nFaults>>

\* Catalog._get_updated_props_and_update_summary (base class): the
\* reconciliation of removals and updates against the current properties
_get_updated_props_and_update_summary(current_properties, removals, updates) ==
    IF removals \cap DOMAIN updates # {}
    THEN [status |-> "ValueError"]
    ELSE LET removed == removals \cap DOMAIN current_properties
             kept == [k \in (DOMAIN current_properties) \ removed |-> current_properties[k]]
         IN  [status |-> "ok",
              summary |-> [removed |-> removed, updated |-> DOMAIN updates,
                           missing |-> removals \ removed],
              updated_properties |-> updates @@ kept]

RemovalChoices == {{}, {"k1", "location", "k2"}}
UpdateChoices == {[k1 |-> "v2"], [Description |-> "v2"]}

\* an update that merges removals and updates without rejecting an overlap
UpdateLoadWithoutOverlapCheck(c) ==
    \E ns \in Namespaces, removals \in RemovalChoices, updates \in UpdateChoices :
        LET args == [ns |-> ns, removals |-> removals, updates |-> updates]
            pre == Snapshot(tables, databases)
            cur == LoadNamespaceResult(databases, ns)
            rec == _get_updated_props_and_update_summary(cur.ret.properties,
                                                         removals \ DOMAIN updates, updates)
        IN  /\ Begin(c)
            /\ IF cur.status # "ok"
               THEN Return(c, "update_namespace_properties", args, cur.status, NoValue,
                           cur.calls, pre, tables, databases)
               ELSE Start(c, "update_namespace_properties_push",
                         [op |-> "update_namespace_properties", args |-> args,
                          pre |-> pre, calls |-> cur.calls,
                          summary |-> rec.summary,
                          updated_properties |-> rec.updated_properties])
            /\ UNCHANGED <<tables, databases, files, nFaults>>

\* lines 493-496: load the current properties and reconcile
update_namespace_properties_load(c) ==
    \E ns \in Namespaces, removals \in RemovalChoices, updates \in UpdateChoices :
        LET args == [ns |-> ns, removals |-> removals, updates |-> updates]
            pre == Snapshot(tables, databases)
            cur == LoadNamespaceResult(databases, ns)
            rec == _get_updated_props_and_update_summary(cur.ret.properties,
                                                         removals, updates)
        IN  /\ Begin(c)
            /\ IF cur.status # "ok"
               THEN Return(c, "update_namespace_properties", args, cur.status, NoValue,
                           cur.calls, pre, tables, databases)
               ELSE IF rec.status # "ok"
               THEN Return(c, "update_namespace_properties", args, rec.status, NoValue,
                           cur.calls, pre, tables, databases)
               ELSE Start(c, "update_namespace_properties_push",
                         [op |-> "update_namespace_properties", args |-> args,
                          pre |-> pre, calls |-> cur.calls,
                          summary |-> rec.summary,
                          updated_properties |-> rec.updated_properties])
            /\ UNCHANGED <<tables, databases, files, nFaults>>

\* a push that sends only the requested updates instead of the merged map
PushDeltaOnly(c) ==
    LET l == call[c]
        ns == l.args.ns
        r == GlueUpdateDatabase(databases, ns,
                                _construct_database_input(ns, l.args.updates))
        calls == Append(l.calls, Api("update_database", ns, r.err))
    IN  /\ pc[c] = "update_namespace_properties_push"
        /\ databases' = r.D
        /\ Return(c, "update_namespace_properties", l.args,
                  IF r.err = "none" THEN "ok" ELSE r.err,
                  IF r.err = "none" THEN [summary |-> l.summary] ELSE NoValue,
                  calls, l.pre, tables, r.D)
        /\ UNCHANGED <<tables, files, nOps, nFaults, concurrency>>

\* lines 498-501: push the full merged map, return the summary
update_namespace_properties_push(c) ==
    LET l == call[c]
        ns == l.args.ns
        r == GlueUpdateDatabase(databases, ns,
                                _construct_database_input(ns, l.updated_properties))
        calls == Append(l.calls, Api("update_database", ns, r.err))
    IN  /\ pc[c] = "update_namespace_properties_push"
        /\ databases' = r.D
        /\ Return(c, "update_namespace_properties", l.args,
                  IF r.err = "none" THEN "ok" ELSE r.err,
                  IF r.err = "none" THEN [summary |-> l.summary] ELSE NoValue,
                  calls, l.pre, tables, r.D)
        /\ UNCHANGED <<tables, files, nOps, nFaults, concurrency>>

\* ------------------------------------------------------------------------
\* Listings: list_tables (also the first half of drop_namespace) and
\* list_namespaces
\* ------------------------------------------------------------------------
\* lines 406-410: the fetch made before the loop; its page is discarded
ListTablesProbe(c, op) ==
    \E ns \in Namespaces :
        LET pre == Snapshot(tables, databases)
            r == GlueGetTables(tables, databases, ns, NoToken)
            calls == <<Api("get_tables", <<ns, NoToken>>, r.err)>>
        IN  /\ Begin(c)
            /\ IF r.err = "EntityNotFoundException"
               THEN Return(c, op, [ns |-> ns], "NoSuchNamespaceError", NoValue, calls,
                           pre, tables, databases)
               ELSE Start(c, "list_tables_page",
                          [op |-> op, args |-> [ns |-> ns], pre |-> pre, calls |-> calls,
                          table_list |-> <<>>, next_token |-> NoToken])
            /\ UNCHANGED <<tables, databases, files, nFaults>>

list_tables_probe(c) == ListTablesProbe(c, "list_tables")

\* lines 383-387 of drop_namespace: table_list = self.list_tables(...)
drop_namespace_list(c) == ListTablesProbe(c, "drop_namespace")

\* a listing loop after which drop_namespace skips the emptiness check
ListTablesPageWithoutEmptinessCheck(c) ==
    LET l == call[c]
        ns == l.args.ns
        r == GlueGetTables(tables, databases, ns, l.next_token)
        calls == Append(l.calls, Api("get_tables", <<ns, l.next_token>>, r.err))
        table_list == l.table_list \o r.TableList
    IN  /\ pc[c] = "list_tables_page"
        /\ IF r.err = "EntityNotFoundException"
           THEN Return(c, l.op, l.args, "NoSuchNamespaceError", NoValue, calls, l.pre,
                       tables, databases)
           ELSE IF r.NextToken # NoToken
           THEN Goto(c, "list_tables_page",
                     [l EXCEPT !.calls = calls, !.table_list = table_list,
                               !.next_token = r.NextToken])
           ELSE IF l.op = "list_tables"
           THEN Return(c, l.op, l.args, "ok",
                       [identifiers |-> [i \in DOMAIN table_list |-> <<ns, table_list[i]>>]],
                       calls, l.pre, tables, databases)
           ELSE Goto(c, "drop_namespace_delete", [l EXCEPT !.calls = calls])
        /\ UNCHANGED <<tables, databases, files, nOps, nFaults, concurrency>>

\* a loop that stops after the first accumulated page, token or not
ListTablesPageStopsEarly(c) ==
    LET l == call[c]
        ns == l.args.ns
        r == GlueGetTables(tables, databases, ns, l.next_token)
        calls == Append(l.calls, Api("get_tables", <<ns, l.next_token>>, r.err))
        table_list == l.table_list \o r.TableList
    IN  /\ pc[c] = "list_tables_page"
        /\ IF r.err = "EntityNotFoundException"
           THEN Return(c, l.op, l.args, "NoSuchNamespaceError", NoValue, calls, l.pre,
                       tables, databases)
           ELSE IF l.op = "list_tables"
           THEN Return(c, l.op, l.args, "ok",
                       [identifiers |-> [i \in DOMAIN table_list |-> <<ns, table_list[i]>>]],
                       calls, l.pre, tables, databases)
           ELSE IF Len(table_list) > 0
           THEN Return(c, l.op, l.args, "NamespaceNotEmptyError", NoValue, calls, l.pre,
                       tables, databases)
           ELSE Goto(c, "drop_namespace_delete", [l EXCEPT !.calls = calls])
        /\ UNCHANGED <<tables, databases, files, nOps, nFaults, concurrency>>

\* lines 411-424: one iteration of the loop; after the last page list_tables
\* returns, and drop_namespace checks the count (lines 389-390)
list_tables_page(c) ==
    LET l == call[c]
        ns == l.args.ns
        r == GlueGetTables(tables, databases, ns, l.next_token)
        calls == Append(l.calls, Api("get_tables", <<ns, l.next_token>>, r.err))
        table_list == l.table_list \o r.TableList
    IN  /\ pc[c] = "list_tables_page"
        /\ IF r.err = "EntityNotFoundException"
           THEN Return(c, l.op, l.args, "NoSuchNamespaceError", NoValue, calls, l.pre,
                       tables, databases)
           ELSE IF r.NextToken # NoToken
           THEN Goto(c, "list_tables_page",
                     [l EXCEPT !.calls = calls, !.table_list = table_list,
                               !.next_token = r.NextToken])
           ELSE IF l.op = "list_tables"
           THEN Return(c, l.op, l.args, "ok",
                       [identifiers |-> [i \in DOMAIN table_list |-> <<ns, table_list[i]>>]],
                       calls, l.pre, tables, databases)
           ELSE IF Len(table_list) > 0
           THEN Return(c, l.op, l.args, "NamespaceNotEmptyError", NoValue, calls, l.pre,
                       tables, databases)
           ELSE Goto(c, "drop_namespace_delete", [l EXCEPT !.calls = calls])
        /\ UNCHANGED <<tables, databases, files, nOps, nFaults, concurrency>>

\* line 392: self.glue.delete_database(Name=database_name)
drop_namespace_delete(c) ==
    LET l == call[c]
        r == GlueDeleteDatabase(databases, l.args.ns)
        calls == Append(l.calls, Api("delete_database", l.args.ns, r.err))
    IN  /\ pc[c] = "drop_namespace_delete"
        /\ databases' = r.D
        /\ Return(c, "drop_namespace", l.args,
                  IF r.err = "none" THEN "ok" ELSE r.err,
                  NoValue, calls, l.pre, tables, r.D)
        /\ UNCHANGED <<tables, files, nOps, nFaults, concurrency>>

NamespaceArguments == {"", "db2"}

\* a listing that ignores its namespace argument
ListNamespacesProbeIgnoringArgument(c) ==
    \E namespace \in NamespaceArguments :
        LET pre == Snapshot(tables, databases)
            r == GlueGetDatabases(databases, NoToken)
        IN  /\ Begin(c)
            /\ Start(c, "list_namespaces_page",
                    [op |-> "list_namespaces", args |-> [namespace |-> namespace],
                     pre |-> pre,
                     calls |-> <<Api("get_databases", NoToken, r.err)>>,
                     database_list |-> <<>>, next_token |-> NoToken])
            /\ UNCHANGED <<tables, databases, files, nFaults>>

\* lines 433-438: a non-empty argument returns []; otherwise the fetch made
\* before the loop, whose page is discarded
list_namespaces_probe(c) ==
    \E namespace \in NamespaceArguments :
        LET pre == Snapshot(tables, databases)
            r == GlueGetDatabases(databases, NoToken)
        IN  /\ Begin(c)
            /\ IF namespace # ""
               THEN Return(c, "list_namespaces", [namespace |-> namespace], "ok",
                           [identifiers |-> <<>>], <<>>, pre, tables, databases)
               ELSE Start(c, "list_namespaces_page",
                         [op |-> "list_namespaces", args |-> [namespace |-> namespace],
                          pre |-> pre,
                          calls |-> <<Api("get_databases", NoToken, r.err)>>,
                          database_list |-> <<>>, next_token |-> NoToken])
            /\ UNCHANGED <<tables, databases, files, nFaults>>

\* a loop that keeps only the entries of the page fetched last
ListNamespacesPageKeepsLastPage(c) ==
    LET l == call[c]
        r == GlueGetDatabases(databases, l.next_token)
        calls == Append(l.calls, Api("get_databases", l.next_token, r.err))
        database_list == r.DatabaseList
    IN  /\ pc[c] = "list_namespaces_page"
        /\ IF r.NextToken # NoToken
           THEN Goto(c, "list_namespaces_page",
                     [l EXCEPT !.calls = calls, !.database_list = database_list,
                               !.next_token = r.NextToken])
           ELSE Return(c, l.op, l.args, "ok",
                       [identifiers |-> [i \in DOMAIN database_list |-> <<database_list[i]>>]],
                       calls, l.pre, tables, databases)
        /\ UNCHANGED <<tables, databases, files, nOps, nFaults, concurrency>>

\* lines 440-447: one iteration of the loop
list_namespaces_page(c) ==
    LET l == call[c]
        r == GlueGetDatabases(databases, l.next_token)
        calls == Append(l.calls, Api("get_databases", l.next_token, r.err))
        database_list == l.database_list \o r.DatabaseList
    IN  /\ pc[c] = "list_namespaces_page"
        /\ IF r.NextToken # NoToken
           THEN Goto(c, "list_namespaces_page",
                     [l EXCEPT !.calls = calls, !.database_list = database_list,
                               !.next_token = r.NextToken])
           ELSE Return(c, l.op, l.args, "ok",
                       [identifiers |-> [i \in DOMAIN database_list |-> <<database_list[i]>>]],
                       calls, l.pre, tables, databases)
        /\ UNCHANGED <<tables, databases, files, nOps, nFaults, concurrency>>

\* ------------------------------------------------------------------------
\* Deferred capabilities
\* ------------------------------------------------------------------------
\* a registration that reports success without doing anything
RegisterTableSilently(c) ==
    \E id \in TableIds :
        /\ Begin(c)
        /\ Return(c, "register_table", [id |-> id], "ok", NoValue, <<>>,
                  Snapshot(tables, databases), tables, databases)
        /\ UNCHANGED <<tables, databases, files, nFaults>>

register_table(c) ==
    \E id \in TableIds :
        /\ Begin(c)
        /\ Return(c, "register_table", [id |-> id], "NotImplementedError", NoValue, <<>>,
                  Snapshot(tables, databases), tables, databases)
        /\ UNCHANGED <<tables, databases, files, nFaults>>

_commit_table(c) ==
    \E id \in TableIds :
        /\ Begin(c)
        /\ Return(c, "_commit_table", [id |-> id], "NotImplementedError", NoValue, <<>>,
                  Snapshot(tables, databases), tables, databases)
        /\ UNCHANGED <<tables, databases, files, nFaults>>

\* ------------------------------------------------------------------------
\* Initial states and specifications
\* ------------------------------------------------------------------------
\* table entities found in the metastore, written by this catalog or by
\* other tools
Entity(params, extra) ==
    [Name |-> "t1", DatabaseName |-> "db1", TableType |-> EXTERNAL_TABLE,
     Parameters |-> params] @@ extra

M1 == "s3://wh/m1.json"

SampleEntities ==
    << Entity([metadata_location |-> M1], EMPTY_DICT),
       Entity([table_type |-> "ICEBERG", metadata_location |-> M1, k1 |-> "v1"],
              [Owner |-> "alice", StorageDescriptor |-> "sd1", Description |-> "d1"]),
       Entity([table_type |-> "Iceberg", metadata_location |-> M1], EMPTY_DICT),
       Entity([table_type |-> "HIVE", metadata_location |-> M1], [Owner |-> "bob"]),
       Entity([table_type |-> "hive"], EMPTY_DICT),
       Entity([table_type |-> "iceberg"], EMPTY_DICT),
       Entity([k1 |-> "v1"], EMPTY_DICT),
       Entity(EMPTY_DICT, EMPTY_DICT) >>

InitialTables(i) ==
    IF i = 0 THEN EMPTY_DICT ELSE (<<"db1", "t1">> :> SampleEntities[i])

InitialDatabase ==
    [Name |-> "db1", LocationUri |-> "s3://wh/db1", Parameters |-> [k1 |-> "v1"]]

Init ==
    /\ \E i \in 0..Len(SampleEntities) : tables = InitialTables(i)
    /\ databases = ("db1" :> InitialDatabase)
    /\ files = {M1}
    /\ pc = [c \in Callers |-> "idle"]
    /\ call = [c \in Callers |-> NoCall]
    /\ last = NoOp
    /\ nOps = 0
    /\ nFaults = 0
    /\ concurrency = Cardinality(Callers)

Step(c) ==
    \/ create_table_write(c)
    \/ create_table_register(c)
    \/ create_table_load(c)
    \/ load_table(c)
    \/ drop_table(c)
    \/ rename_table_get(c)
    \/ rename_table_create(c)
    \/ rename_table_drop(c)
    \/ rename_table_rollback(c)
    \/ rename_table_load(c)
    \/ create_namespace(c)
    \/ load_namespace_properties(c)
    \/ update_namespace_properties_load(c)
    \/ update_namespace_properties_push(c)
    \/ list_tables_probe(c)
    \/ drop_namespace_list(c)
    \/ list_tables_page(c)
    \/ drop_namespace_delete(c)
    \/ list_namespaces_probe(c)
    \/ list_namespaces_page(c)
    \/ register_table(c)
    \/ _commit_table(c)

\* callers interleave at every backend call
Next == \E c \in Callers : Step(c)

Spec == Init /\ [][Next]_vars

\* one caller at a time: an operation starts only when no other is under way
SerialInit ==
    /\ \E i \in 0..Len(SampleEntities) : tables = InitialTables(i)
    /\ databases = ("db1" :> InitialDatabase)
    /\ files = {M1}
    /\ pc = [c \in Callers |-> "idle"]
    /\ call = [c \in Callers |-> NoCall]
    /\ last = NoOp
    /\ nOps = 0
    /\ nFaults = 0
    /\ concurrency = 1

SerialSpec == SerialInit /\ [][Next]_vars

\* callers either take turns or interleave: both schedulings in one
\* specification
AnySpec == (Init \/ SerialInit) /\ [][Next]_vars

\* one caller at a time, and a listing loop that can make its next fetch
\* makes it: the calls are synchronous, nothing suspends a loop
FairSerialSpec ==
    /\ SerialSpec
    /\ \A c \in Callers : /\ WF_vars(list_tables_page(c))
                          /\ WF_vars(list_namespaces_page(c))

\* a metastore that starts without tables, so that every table entity is one
\* this catalog registered; callers interleave or take turns as they like
EmptyStartInit ==
    /\ tables = EMPTY_DICT
    /\ databases = ("db1" :> InitialDatabase)
    /\ files = {}
    /\ pc = [c \in Callers |-> "idle"]
    /\ call = [c \in Callers |-> NoCall]
    /\ last = NoOp
    /\ nOps = 0
    /\ nFaults = 0
    /\ concurrency = Cardinality(Callers)

EmptyStartSpec == EmptyStartInit /\ [][Next]_vars

\* the entity create_table registers for identifier id, metadata at M1
RegisteredTable(id) ==
    [Name |-> id[2], DatabaseName |-> id[1], TableType |-> EXTERNAL_TABLE,
     Parameters |-> _construct_parameters(M1)]

\* the sets of tables a series of renames may start from
RenameStarts ==
    {{<<"db1", "t1">>},
     {<<"db1", "t1">>, <<"db1", "t2">>},
     {<<"db1", "t1">>, <<"db2", "t1">>}}

\* a metastore with both namespaces and valid tables only, on which the
\* callers' operations interleave
RenameInit ==
    /\ \E S \in RenameStarts : tables = [id \in S |-> RegisteredTable(id)]
    /\ databases = ("db1" :> InitialDatabase) @@
                   ("db2" :> [Name |-> "db2", Parameters |-> EMPTY_DICT])
    /\ files = {M1}
    /\ pc = [c \in Callers |-> "idle"]
    /\ call = [c \in Callers |-> NoCall]
    /\ last = NoOp
    /\ nOps = 0
    /\ nFaults = 0
    /\ concurrency = Cardinality(Callers)

RenameSpec == RenameInit /\ [][Next]_vars

\* ------------------------------------------------------------------------
\* Properties
\* ------------------------------------------------------------------------
\* what a caller observes on the backend state recorded in snapshot S
Resolves(S, id) == GlueGetTable(S.tables, S.databases, id).err = "none"

\* the rename recorded in r got as far as deleting the source, and that
\* delete failed; its rollback delete then succeeded / failed
SourceDeleteFailed(r) ==
    /\ r.op = "rename_table"
    /\ Len(r.calls) >= 3
    /\ r.calls[3].api = "delete_table"
    /\ r.calls[3].err # "none"

RollbackSucceeded(r) == Len(r.calls) >= 4 /\ r.calls[4].err = "none"
RollbackFailed(r) == Len(r.calls) >= 4 /\ r.calls[4].err # "none"



\* C1: a rename whose source delete fails and whose rollback delete succeeds
\* ends with the generic failure (ValueError) and leaves the backend as it
\* was before the call: the source resolves to its original entity, the
\* destination does not resolve.
C1_RollbackRestores ==
    (SourceDeleteFailed(last) /\ RollbackSucceeded(last)) =>
        /\ last.status = "ValueError"
        /\ last.post.tables = last.pre.tables
        /\ Resolves(last.post, last.args.id)
        /\ last.post.tables[last.args.id] = last.pre.tables[last.args.id]
        /\ ~Resolves(last.post, last.args.to)

C1_Witness ==
    /\ SourceDeleteFailed(last)
    /\ RollbackSucceeded(last)
    /\ last.calls[2].api = "create_table"
    /\ last.calls[2].err = "none"
    /\ last.calls[4].target = last.args.to

\* C2: a rename whose source delete and rollback delete both fail ends with a
\* ManualInterventionRequired error, a kind other than the one raised when
\* rollback succeeds (ValueError), and makes no backend call after the
\* failed rollback.
C2_TerminalErrorKind ==
    (SourceDeleteFailed(last) /\ RollbackFailed(last)) =>
        /\ last.status = "ManualInterventionRequired"
        /\ last.status # "ValueError"
        /\ Len(last.calls) = 4

\* C3: a rename that completes without error leaves the source unresolvable
\* (load_table fails NoSuchTableError), leaves under the destination the
\* source entity with only its name (and owning database) replaced, and
\* returns the table loaded under the destination identifier.
C3_RenameCopiesEntity ==
    (last.op = "rename_table" /\ last.status = "ok") =>
        LET from == last.args.id
            to == last.args.to
            src == last.pre.tables[from]
        IN  /\ LoadTableResult(last.post.tables, last.post.databases, files, from).status
                   = "NoSuchTableError"
            /\ to \in DOMAIN last.post.tables
            /\ last.post.tables[to] = [src EXCEPT !.Name = to[2], !.DatabaseName = to[1]]
            /\ last.post.tables = Put(Del(last.pre.tables, from), to, last.post.tables[to])
            /\ last.ret.identifier = to
            /\ last.ret.metadata_location = src.Parameters[METADATA_LOCATION]
            /\ last.calls[Len(last.calls)] = Api("get_table", to, "none")

C3_Witness ==
    /\ last.op = "rename_table"
    /\ last.status = "ok"
    /\ last.args.id[1] # last.args.to[1]
    /\ {"Owner", "StorageDescriptor", "Description"} \subseteq DOMAIN last.post.tables[last.args.to]

\* the spec's notion of a valid table entity: both reserved properties are
\* present and the type marker is the format marker in any letter case
MarkerMatches(v) == v \in {"iceberg", "ICEBERG", "Iceberg"}
TypeMissing(e) == ~Has(e["Parameters"], TABLE_TYPE)
TypeMismatched(e) == Has(e["Parameters"], TABLE_TYPE)
                     /\ ~MarkerMatches(e["Parameters"][TABLE_TYPE])
LocationMissing(e) == ~Has(e["Parameters"], METADATA_LOCATION)
ValidEntity(e) == ~TypeMissing(e) /\ ~TypeMismatched(e) /\ ~LocationMissing(e)

\* the rename recorded in r failed before it attempted any delete
RenameFailedEarly(r) ==
    /\ r.op = "rename_table"
    /\ r.status # "ok"
    /\ Len(r.calls) <= 2

\* C4: a rename that fails in phase 1 or 2 leaves the backend unchanged;
\* an absent source gives NoSuchTableError, an invalid source gives
\* NoSuchPropertyException or NoSuchIcebergTableError and creates nothing, an
\* existing destination gives TableAlreadyExistsError, an absent destination
\* namespace gives NoSuchNamespaceError.
C4_EarlyFailureFrame ==
    RenameFailedEarly(last) =>
        LET from == last.args.id
            to == last.args.to
            pre == last.pre
        IN  /\ last.post = pre
            /\ ~Resolves(pre, from) => last.status = "NoSuchTableError"
            /\ (Resolves(pre, from) /\ ~ValidEntity(pre.tables[from])) =>
                   /\ last.status \in {"NoSuchPropertyException", "NoSuchIcebergTableError"}
                   /\ Len(last.calls) = 1
            /\ (Resolves(pre, from) /\ ValidEntity(pre.tables[from])) =>
                   /\ Resolves(pre, to) => last.status = "TableAlreadyExistsError"
                   /\ to[1] \notin DOMAIN pre.databases =>
                          last.status = "NoSuchNamespaceError"

\* the outcome of validating the entity in the operation recorded in r:
\* load_table ends with it; rename_table ends with it when it fails and goes
\* on to create the destination when it passes
Validated(r) ==
    /\ r.op \in {"load_table", "rename_table"}
    /\ Resolves(r.pre, r.args.id)
ValidationOutcome(r) ==
    IF r.op = "load_table" \/ Len(r.calls) = 1 THEN r.status ELSE "ok"

C6_CreateThenLoad ==
    (/\ last.op = "create_table"
     /\ last.status # "OSError"
     /\ last.args.id[1] \in DOMAIN last.pre.databases
     /\ last.args.id \notin DOMAIN last.pre.tables) =>
        LET id == last.args.id
            written == last.args.metadata_location
            loaded == LoadTableResult(last.post.tables, last.post.databases, files, id)
        IN  /\ last.status = "ok"
            /\ written \in files
            /\ loaded.status = "ok"
            /\ loaded.ret.metadata_location = written
            /\ last.ret = loaded.ret
            /\ last.calls = <<Api("create_table", id, "none"), Api("get_table", id, "none")>>

C6_Witness ==
    /\ last.op = "create_table"
    /\ last.status = "ok"
    /\ last.args.metadata_location # M1
    /\ last.ret.metadata_location = last.args.metadata_location

\* C7: create_table on a registered identifier fails with
\* TableAlreadyExistsError and leaves the existing entity unchanged;
\* create_table in a namespace that does not exist fails with
\* NoSuchNamespaceError and registers no table entity.
C7_CreateConflicts ==
    (last.op = "create_table" /\ last.status # "OSError") =>
        LET id == last.args.id
        IN  /\ Resolves(last.pre, id) =>
                   /\ last.status = "TableAlreadyExistsError"
                   /\ last.post.tables = last.pre.tables
            /\ id[1] \notin DOMAIN last.pre.databases =>
                   /\ last.status = "NoSuchNamespaceError"
                   /\ last.post.tables = last.pre.tables

C7_Witness ==
    /\ last.op = "create_table"
    /\ last.status = "TableAlreadyExistsError"
    /\ ValidEntity(last.pre.tables[last.args.id])
    /\ last.pre.tables[last.args.id]["Parameters"][METADATA_LOCATION]
           # last.args.metadata_location
    /\ last.post.tables[last.args.id] = last.pre.tables[last.args.id]

\* C8, the part about states: a successful drop_table removes exactly the
\* named entity, after which load_table on the identifier fails with
\* NoSuchTableError; drop_table on an identifier without an entity fails with
\* NoSuchTableError and changes nothing; and as long as an identifier has no
\* entity, load_table on it fails with NoSuchTableError.
C8_Dropped ==
    /\ (last.op = "drop_table" /\ last.status = "ok") =>
           /\ Resolves(last.pre, last.args.id)
           /\ last.post.tables = Del(last.pre.tables, last.args.id)
           /\ last.post.databases = last.pre.databases
           /\ LoadTableResult(last.post.tables, last.post.databases, files,
                              last.args.id).status = "NoSuchTableError"
    /\ (last.op = "drop_table" /\ ~Resolves(last.pre, last.args.id)
            /\ last.calls[1].err # "InternalServiceException") =>
           /\ last.status = "NoSuchTableError"
           /\ last.post = last.pre
    /\ (last.op = "load_table" /\ ~Resolves(last.pre, last.args.id)) =>
           last.status = "NoSuchTableError"
    /\ \A id \in TableIds :
           id \notin DOMAIN tables =>
               LoadTableResult(tables, databases, files, id).status = "NoSuchTableError"

\* C8, the part about steps: an identifier without an entity gets one only by
\* the registering step of create_table on it or of rename_table to it.
C8_Registered ==
    \A id \in TableIds :
        (id \notin DOMAIN tables /\ id \in DOMAIN tables') =>
            \E c \in Callers :
                \/ pc[c] = "create_table_register" /\ call[c].args.id = id
                \/ pc[c] = "rename_table_create" /\ call[c].args.to = id

\* C8: after drop_table(id) succeeds load_table(id) fails with
\* NoSuchTableError until the identifier is created or renamed-to again;
\* drop_table of a missing entity fails with NoSuchTableError and changes no
\* backend state; drop_table removes only the named entity.
C8_DropThenLoad == [] C8_Dropped /\ [][C8_Registered]_vars

C8_Witness ==
    /\ last.op = "drop_table"
    /\ last.status = "ok"
    /\ last.args.id \notin DOMAIN tables
    /\ DOMAIN last.pre.tables # {last.args.id}
    /\ LoadTableResult(tables, databases, files, last.args.id).status = "NoSuchTableError"

\* C9: drop_namespace of a namespace with member tables fails with
\* NamespaceNotEmptyError and deletes nothing; of an existing empty namespace
\* it succeeds, after which load_namespace_properties fails with
\* NoSuchNamespaceError; of a missing namespace it fails with
\* NoSuchNamespaceError.
C9_DropNamespace ==
    last.op = "drop_namespace" =>
        LET ns == last.args.ns
            pre == last.pre
            members == {id \in DOMAIN pre.tables : id[1] = ns}
        IN  /\ ns \notin DOMAIN pre.databases =>
                   last.status = "NoSuchNamespaceError" /\ last.post = pre
            /\ (ns \in DOMAIN pre.databases /\ members # {}) =>
                   last.status = "NamespaceNotEmptyError" /\ last.post = pre
            /\ (ns \in DOMAIN pre.databases /\ members = {}) =>
                   /\ last.status = "ok"
                   /\ last.post.tables = pre.tables
                   /\ last.post.databases = Del(pre.databases, ns)
                   /\ LoadNamespaceResult(last.post.databases, ns).status
                          = "NoSuchNamespaceError"

C9_Witness ==
    /\ last.op = "drop_namespace"
    /\ last.status = "NamespaceNotEmptyError"
    /\ last.args.ns \in DOMAIN databases
    /\ \E id \in DOMAIN tables : id[1] = last.args.ns

\* the update recorded in r names a key both for removal and for update
Overlapping(r) ==
    /\ r.op = "update_namespace_properties"
    /\ r.args.removals \cap DOMAIN r.args.updates # {}

\* C10 as stated: an update with a key in both removals and updates always
\* fails with the ambiguous-update error (ValueError), issues no update and
\* leaves the backend unchanged.
C10_AsStated ==
    Overlapping(last) =>
        /\ last.status = "ValueError"
        /\ \A i \in DOMAIN last.calls : last.calls[i].api # "update_database"
        /\ last.post = last.pre

\* C10 amended: such an update fails with the ambiguous-update error when
\* the namespace exists and with NoSuchNamespaceError when it does not (the
\* properties are loaded before the overlap is checked); in both cases it
\* issues no update and leaves the backend unchanged.
C10_OverlapRejected ==
    Overlapping(last) =>
        /\ last.status = IF last.args.ns \in DOMAIN last.pre.databases
                         THEN "ValueError" ELSE "NoSuchNamespaceError"
        /\ last.calls = <<Api("get_database", last.args.ns,
                              IF last.args.ns \in DOMAIN last.pre.databases
                              THEN "none" ELSE "EntityNotFoundException")>>
        /\ last.post = last.pre

C10_Witness ==
    /\ Overlapping(last)
    /\ last.status = "ValueError"
    /\ last.args.ns \in DOMAIN databases
    /\ databases[last.args.ns] = last.pre.databases[last.args.ns]

\* the keys of a properties map that are stored in dedicated backend fields
PromotedKeys == {"Description", LOCATION}

\* properties `before` without the keys in removals, overlaid with updates
Merged(before, removals, updates) ==
    [k \in ((DOMAIN before) \ removals) \cup DOMAIN updates |->
        IF k \in DOMAIN updates THEN updates[k] ELSE before[k]]

\* entity e stores exactly the properties map p: the promoted keys in their
\* dedicated fields, every other key in the parameter bag
Stores(e, p) ==
    /\ Has(e, "Parameters")
    /\ e["Parameters"] = [k \in (DOMAIN p) \ PromotedKeys |-> p[k]]
    /\ Has(e, "Description") = Has(p, "Description")
    /\ Has(p, "Description") => e["Description"] = p["Description"]
    /\ Has(e, "LocationUri") = Has(p, LOCATION)
    /\ Has(p, LOCATION) => e["LocationUri"] = p[LOCATION]

\* C11: update_namespace_properties with disjoint removals and updates on an
\* existing namespace succeeds; afterwards load_namespace_properties returns
\* the previous properties minus the removals overlaid with the updates
\* (promoted keys included), the backend entity holds that full merged map,
\* and the summary splits the requested keys into updated, removed and
\* missing.
C11_UpdateThenLoad ==
    (/\ last.op = "update_namespace_properties"
     /\ last.args.removals \cap DOMAIN last.args.updates = {}
     /\ last.args.ns \in DOMAIN last.pre.databases) =>
        LET ns == last.args.ns
            removals == last.args.removals
            updates == last.args.updates
            before == LoadNamespaceResult(last.pre.databases, ns).ret.properties
            after == LoadNamespaceResult(last.post.databases, ns)
            merged == Merged(before, removals, updates)
            summary == last.ret.summary
        IN  /\ last.status = "ok"
            /\ after.status = "ok"
            /\ after.ret.properties = merged
            /\ Stores(last.post.databases[ns], merged)
            /\ last.calls[Len(last.calls)] = Api("update_database", ns, "none")
            /\ summary.updated = DOMAIN updates
            /\ summary.removed = removals \cap DOMAIN before
            /\ summary.missing = removals \ DOMAIN before
            /\ last.post.tables = last.pre.tables
            /\ \A other \in DOMAIN last.pre.databases \ {ns} :
                   /\ other \in DOMAIN last.post.databases
                   /\ last.post.databases[other] = last.pre.databases[other]

C11_Witness ==
    /\ last.op = "update_namespace_properties"
    /\ last.status = "ok"
    /\ LOCATION \in last.args.removals
    /\ Has(last.pre.databases[last.args.ns], "LocationUri")
    /\ "k1" \in last.ret.summary.removed
    /\ "k2" \in last.ret.summary.missing
    /\ "Description" \in last.ret.summary.updated
    /\ ~Has(databases[last.args.ns], "LocationUri")
    /\ databases[last.args.ns]["Description"] = "v2"

\* C12: create_namespace(name, P) for a name not yet registered succeeds,
\* the entity it registers stores P with Description and location in their
\* dedicated fields and every other key in the parameter bag, and
\* load_namespace_properties(name) then returns exactly P.
C12_NamespaceRoundTrip ==
    (/\ last.op = "create_namespace"
     /\ last.args.ns \notin DOMAIN last.pre.databases) =>
        LET ns == last.args.ns
            P == last.args.properties
            loaded == LoadNamespaceResult(last.post.databases, ns)
        IN  /\ last.status = "ok"
            /\ ns \in DOMAIN last.post.databases
            /\ Stores(last.post.databases[ns], P)
            /\ loaded.status = "ok"
            /\ loaded.ret.properties = P
            /\ DOMAIN loaded.ret.properties = DOMAIN P

C12_Witness ==
    /\ last.op = "create_namespace"
    /\ last.status = "ok"
    /\ last.args.ns \notin DOMAIN last.pre.databases
    /\ DOMAIN last.args.properties = {"Description", LOCATION, "k1"}
    /\ databases[last.args.ns]["LocationUri"] = "v1"
    /\ DOMAIN databases[last.args.ns]["Parameters"] = {"k1"}
    /\ LoadNamespaceResult(databases, last.args.ns).ret.properties = last.args.properties

\* the tables of namespace ns in store T, and the namespaces of store D, in
\* backend order
TablesInOrder(T, ns) == SelectSeq(NameOrder, LAMBDA n : <<ns, n>> \in DOMAIN T)
NamespacesInOrder(D) == SelectSeq(NamespaceOrder, LAMBDA n : n \in DOMAIN D)

\* the number of pages the backend splits a listing of n entries into
PageCount(n) == IF n = 0 THEN 1 ELSE (n + PageSize - 1) \div PageSize

\* C13: whatever the number of pages, list_namespaces() returns every
\* namespace of the backend and list_tables(ns) every table of ns, each once
\* and in backend order.
C13_ListingComplete ==
    /\ (last.op = "list_namespaces" /\ last.args.namespace = "") =>
           LET all == NamespacesInOrder(last.pre.databases)
           IN  /\ last.status = "ok"
               /\ last.ret.identifiers = [i \in DOMAIN all |-> <<all[i]>>]
    /\ (last.op = "list_tables" /\ last.args.ns \in DOMAIN last.pre.databases) =>
           LET all == TablesInOrder(last.pre.tables, last.args.ns)
           IN  /\ last.status = "ok"
               /\ last.ret.identifiers = [i \in DOMAIN all |-> <<last.args.ns, all[i]>>]

\* a listing drained from more than one page
C13_Witness ==
    /\ last.op = "list_namespaces"
    /\ last.args.namespace = ""
    /\ PageCount(Len(NamespacesInOrder(databases))) > 1
    /\ Len(last.ret.identifiers) = Cardinality(DOMAIN databases)
    /\ Len(last.calls) = 1 + PageCount(Len(NamespacesInOrder(databases)))

\* C14: list_namespaces with a non-empty namespace argument returns an empty
\* sequence, whether or not a namespace of that name exists, without any
\* backend call and without changing the backend.
C14_NestedListingEmpty ==
    (last.op = "list_namespaces" /\ last.args.namespace # "") =>
        /\ last.status = "ok"
        /\ last.ret.identifiers = <<>>
        /\ last.calls = <<>>
        /\ last.post = last.pre

C14_Witness ==
    /\ last.op = "list_namespaces"
    /\ last.args.namespace \in DOMAIN databases
    /\ last.ret.identifiers = <<>>
    /\ last.calls = <<>>

\* the signals of the backend client itself
BackendNativeSignals ==
    {"EntityNotFoundException", "AlreadyExistsException", "InvalidInputException"}

\* C15: no operation ends with a backend-native EntityNotFound,
\* AlreadyExists or InvalidInput signal; each is translated into a domain
\* error before it reaches the caller.
C15_NoNativeSignal ==
    last.status \notin BackendNativeSignals

BothResolve(T, D, F, from, to) ==
    LET a == LoadTableResult(T, D, F, from)
        b == LoadTableResult(T, D, F, to)
    IN  /\ a.status = "ok"
        /\ b.status = "ok"
        /\ a.ret.metadata_location = b.ret.metadata_location

\* caller c's rename has created its destination and not yet deleted its
\* source
InWindow(c) == pc[c] = "rename_table_drop"

\* the step that creates the destination of c's rename, made while the
\* source entity is still the one fetched in phase 1, opens the window:
\* both identifiers then resolve with the same metadata location
C17_WindowOpens ==
    \A c \in Callers :
        (/\ pc[c] = "rename_table_create"
         /\ pc'[c] = "rename_table_drop"
         /\ GlueGetTable(tables, databases, call[c].args.id)
                = [err |-> "none", Table |-> call[c].glue_table]) =>
            BothResolve(tables', databases', files', call[c].args.id, call[c].args.to)

\* with one caller at a time and no backend failure, while a rename that
\* creates its destination is under way, and before and after it, both
\* identifiers resolve in the window and nowhere else
C17_OnlyInWindow ==
    (concurrency = 1 /\ nFaults = 0) =>
        /\ \A c \in Callers :
               (/\ pc[c] \in {"rename_table_create", "rename_table_drop",
                              "rename_table_rollback", "rename_table_load"}
                /\ call[c].args.to \notin DOMAIN call[c].pre.tables) =>
                   (BothResolve(tables, databases, files,
                                call[c].args.id, call[c].args.to) <=> InWindow(c))
        /\ (last.op = "rename_table" /\ last.status = "ok") =>
               /\ ~BothResolve(last.pre.tables, last.pre.databases, files,
                               last.args.id, last.args.to)
               /\ ~BothResolve(last.post.tables, last.post.databases, files,
                               last.args.id, last.args.to)

\* no lock is taken: while c's rename is in its window, another caller that
\* is idle can begin a load, a drop or a rename
C17_NoLock ==
    \A c \in Callers, d \in Callers :
        (/\ c # d
         /\ InWindow(c)
         /\ pc[d] = "idle"
         /\ concurrency > 1
         /\ nOps < MaxOps) =>
            /\ ENABLED load_table(d)
            /\ ENABLED drop_table(d)
            /\ ENABLED rename_table_get(d)

\* C17: a rename that creates its destination passes through a state in
\* which source and destination both resolve to a valid table with the same
\* metadata location; other callers can act in that window; with a single
\* caller and no backend failure it is the only state in which both resolve.
C17_RenameWindow ==
    /\ [](C17_OnlyInWindow /\ C17_NoLock)
    /\ [][C17_WindowOpens]_vars

\* another caller loads the destination while the rename is in its window
C17_Witness ==
    \E c \in Callers :
        /\ InWindow(c)
        /\ BothResolve(tables, databases, files, call[c].args.id, call[c].args.to)
        /\ call[c].args.to \notin DOMAIN call[c].pre.tables
        /\ last.caller # c
        /\ last.op = "load_table"
        /\ last.args.id = call[c].args.to
        /\ last.status = "ok"

\* the tables registered in namespace ns in store T
Members(T, ns) == {id \in DOMAIN T : id[1] = ns}

\* a step that deletes a namespace entity finds it without member tables
DeletedOnlyWhenEmpty ==
    \A ns \in DOMAIN databases :
        ns \notin DOMAIN databases' => Members(tables, ns) = {}

\* every registered table is in a namespace that exists
NoOrphanTable ==
    \A id \in DOMAIN tables : id[1] \in DOMAIN databases

\* C18: under every interleaving a namespace entity is deleted only when it
\* has no member table at the moment of deletion, so no registered table is
\* left in a namespace that no longer exists.
C18_GatedByEmptiness ==
    /\ []NoOrphanTable
    /\ [][DeletedOnlyWhenEmpty]_vars

\* the step in which a create_table registers its entity: the entity names
\* the metadata location of the call, and that file is already in the
\* content store
RegistersWrittenMetadata ==
    \A c \in Callers :
        (/\ pc[c] = "create_table_register"
         /\ pc'[c] = "create_table_load") =>
            LET id == call[c].args.id
            IN  /\ id \in DOMAIN tables'
                /\ Has(tables'[id]["Parameters"], METADATA_LOCATION)
                /\ tables'[id]["Parameters"][METADATA_LOCATION]
                       = call[c].args.metadata_location
                /\ call[c].args.metadata_location \in files

\* a create_table about to register has written its file; one whose write
\* failed made no backend call and registered nothing
WriteComesFirst ==
    /\ \A c \in Callers :
           pc[c] = "create_table_register" => call[c].args.metadata_location \in files
    /\ (last.op = "create_table" /\ last.status = "OSError") =>
           /\ last.calls = <<>>
           /\ last.post = last.pre

\* C19: create_table writes the metadata file before it registers the
\* entity: the entity it registers names a file already in the content
\* store, and when the write fails nothing is registered.
C19_WriteBeforeRegister ==
    /\ []WriteComesFirst
    /\ [][RegistersWrittenMetadata]_vars

C19_Witness ==
    /\ last.op = "create_table"
    /\ last.status = "ok"
    /\ last.args.metadata_location # M1
    /\ last.args.id \in DOMAIN tables
    /\ tables[last.args.id]["Parameters"][METADATA_LOCATION] = last.args.metadata_location
    /\ last.args.metadata_location \in files

\* the tokens of the fetches recorded in calls (the target of a get_tables
\* call is <<namespace, token>>, of a get_databases call the token)
TokenOf(a) == IF a.api = "get_tables" THEN a.target[2] ELSE a.target

\* the fetches of a completed listing of the sequence `all`: the first one
\* is made before the loop and discarded; the first accumulated page is
\* fetched without a token, each later fetch carries the token of the page
\* before it, and the last page is the first without a token
TokenChain(calls, all) ==
    /\ Len(calls) >= 2
    /\ TokenOf(calls[1]) = NoToken
    /\ TokenOf(calls[2]) = NoToken
    /\ \A i \in 2..(Len(calls) - 1) :
           /\ Page(all, TokenOf(calls[i])).NextToken # NoToken
           /\ TokenOf(calls[i + 1]) = Page(all, TokenOf(calls[i])).NextToken
    /\ Page(all, TokenOf(calls[Len(calls)])).NextToken = NoToken

ListingTokens ==
    /\ (last.op = "list_tables" /\ last.status = "ok") =>
           /\ \A i \in DOMAIN last.calls :
                  /\ last.calls[i].api = "get_tables"
                  /\ last.calls[i].target[1] = last.args.ns
           /\ TokenChain(last.calls, TablesInOrder(last.pre.tables, last.args.ns))
    /\ (last.op = "list_namespaces" /\ last.args.namespace = "") =>
           /\ \A i \in DOMAIN last.calls : last.calls[i].api = "get_databases"
           /\ TokenChain(last.calls, NamespacesInOrder(last.pre.databases))

\* C20: the listing loops of list_tables and list_namespaces are left after
\* finitely many fetches; the first accumulated page is fetched without a
\* token, each later fetch carries the token of the preceding page, and the
\* loop stops at the first page without a token.
C20_ListingTerminates ==
    /\ []ListingTokens
    /\ \A c \in Callers :
           /\ (pc[c] = "list_tables_page") ~> (pc[c] # "list_tables_page")
           /\ (pc[c] = "list_namespaces_page") ~> (pc[c] # "list_namespaces_page")

\* a listing of two pages: three fetches, the last one carrying a token
C20_Witness ==
    /\ last.op = "list_tables"
    /\ last.status = "ok"
    /\ Len(last.calls) = 3
    /\ TokenOf(last.calls[3]) # NoToken
    /\ Len(last.ret.identifiers) = 2

\* the failures of load_table that report an entity which is not a valid
\* table of this format
ValidationFailures ==
    {"NoSuchPropertyException", "NoSuchIcebergTableError", "KeyError", "AssertionError"}

\* C21: starting without tables, every registered table entity carries the
\* table-type marker of the format and a metadata location, so load_table
\* on a registered identifier never fails with NoSuchPropertyException or
\* NoSuchIcebergTableError.
C21_RegisteredAreValid ==
    /\ \A id \in DOMAIN tables :
           /\ Has(tables[id], "Parameters")
           /\ ValidEntity(tables[id])
           /\ tables[id]["Parameters"][METADATA_LOCATION] \in files
           /\ LoadTableResult(tables, databases, files, id).status
                  \notin ValidationFailures
           /\ id[1] \in DOMAIN databases =>
                  LoadTableResult(tables, databases, files, id).status = "ok"
    /\ last.op \in {"load_table", "create_table", "rename_table"} =>
           last.status \notin ValidationFailures

\* a table created and then renamed is still a valid table
C21_Witness ==
    /\ last.op = "rename_table"
    /\ last.status = "ok"
    /\ last.args.to \in DOMAIN tables
    /\ last.args.id \notin DOMAIN tables
    /\ ValidEntity(tables[last.args.to])
    /\ LoadTableResult(tables, databases, files, last.args.to).status = "ok"

RenameLabels ==
    {"rename_table_create", "rename_table_drop", "rename_table_rollback",
     "rename_table_load"}

\* the callers whose rename is under way
Renaming == {c \in Callers : pc[c] \in RenameLabels}

\* every operation started in the run is a rename that is still under way,
\* and no backend failure has been injected
RenamesOnly ==
    /\ Renaming # {}
    /\ nOps = Cardinality(Renaming)
    /\ nFaults = 0

\* the least n in the non-empty set S of naturals
Least(S) == CHOOSE n \in S : \A m \in S : n <= m

\* the number of tables registered before the renames started: the first
\* of them took its snapshot then
Baseline == Least({Cardinality(DOMAIN call[c].pre.tables) : c \in Renaming})

\* the successful calls of api in a calls trace
Succeeded(calls, api) ==
    Cardinality({i \in DOMAIN calls : calls[i].api = api /\ calls[i].err = "none"})

\* a step of one of the renames, without failure, leaves at least as many
\* tables as there were before the renames started
CountKept ==
    (RenamesOnly /\ nOps' = nOps /\ nFaults' = 0) =>
        Cardinality(DOMAIN tables') >= Baseline

\* a rename deletes at most once, and only after it has created its
\* destination
DeletesAfterCreate ==
    RenamesOnly =>
        \A c \in Renaming :
            /\ Succeeded(call[c].calls, "delete_table") <= 1
            /\ Succeeded(call[c].calls, "delete_table")
                   <= Succeeded(call[c].calls, "create_table")

\* C22: under any interleaving of renames by several callers, without
\* drop_table calls and without backend failures, the number of registered
\* tables never falls below the number before the renames started: each
\* rename creates its destination before its one successful delete.
C22_NoTableLost ==
    /\ []DeletesAfterCreate
    /\ [][CountKept]_vars

\* two renames of one source: the second finds the source gone and is about
\* to roll its destination back
C22_Witness ==
    \E c \in Callers, d \in Callers :
        /\ RenamesOnly
        /\ pc[c] = "rename_table_rollback"
        /\ pc[d] = "rename_table_load"
        /\ call[c].args.id = call[d].args.id
        /\ Cardinality(DOMAIN tables) = Baseline + 1

====
